---- MODULE Spec2Model ----
(***************************************************************************)
(* Model of the health-check service: the FastAPI application built in     *)
(* backend/src/main.py (FastAPI() with its default documentation routes,   *)
(* the CORSMiddleware configured there, the included health router) and    *)
(* the handler of backend/src/routes/health.py.                            *)
(*                                                                         *)
(* A path is the tuple of its segments: "/health" is <<"health">>,         *)
(* "/health/" is <<"health", "">>, "/docs/oauth2-redirect" is              *)
(* <<"docs", "oauth2-redirect">>.  A header that a request does not carry  *)
(* has the value Absent.  Bodies are the bytes the response class renders  *)
(* (JSONResponse renders a dict with the separators "," and ":").          *)
(***************************************************************************)
EXTENDS Naturals, Sequences, FiniteSets, Bags, TLC

VARIABLES inflight, openapi_schema

vars == <<inflight, openapi_schema>>

\* Number of requests the server may have in flight at once.
MaxInFlight == 2

Absent == "<absent>"

------------------------------------------------------------------------------
\* Requests

Methods == {"GET", "HEAD", "POST", "OPTIONS"}

HealthPath == <<"health">>

OpenapiPath == <<"openapi.json">>

DocsPath == <<"docs">>

OAuth2RedirectPath == <<"docs", "oauth2-redirect">>

RedocPath == <<"redoc">>

Paths ==
    { HealthPath, <<"health", "">>, <<"unknown">>,
      OpenapiPath, DocsPath, OAuth2RedirectPath, RedocPath }

\* The CORS-relevant request headers: Origin, Access-Control-Request-Method,
\* Access-Control-Request-Headers, Cookie.
HeaderSets ==
    { [origin |-> Absent, acrm |-> Absent, acrh |-> Absent, cookie |-> FALSE],
      [origin |-> "http://example.com", acrm |-> Absent, acrh |-> Absent, cookie |-> FALSE],
      [origin |-> "http://example.com", acrm |-> Absent, acrh |-> Absent, cookie |-> TRUE],
      [origin |-> "http://example.com", acrm |-> "GET", acrh |-> Absent, cookie |-> FALSE],
      [origin |-> "http://example.com", acrm |-> "GET", acrh |-> "X-Custom", cookie |-> FALSE],
      [origin |-> "http://example.com", acrm |-> "FOO", acrh |-> Absent, cookie |-> FALSE],
      [origin |-> Absent, acrm |-> "GET", acrh |-> Absent, cookie |-> FALSE] }

\* Query string and body of a request.
Extras ==
    { [query_string |-> "", body |-> ""],
      [query_string |-> "verbose=1", body |-> ""],
      [query_string |-> "verbose=1", body |-> "{\"x\":1}"] }

NoExtras == [query_string |-> "", body |-> ""]

Request(m, p, h, e) ==
    [method |-> m, path |-> p, query_string |-> e.query_string, body |-> e.body,
     origin |-> h.origin, acrm |-> h.acrm, acrh |-> h.acrh, cookie |-> h.cookie]

\* Every method on every path with every header set, and on /health and an
\* unregistered path also with a query string and a body.
Requests ==
    { Request(m, p, h, NoExtras) : m \in Methods, p \in Paths, h \in HeaderSets }
    \cup { Request(m, p, h, e) : m \in {"GET", "POST"},
                                 p \in {HealthPath, <<"unknown">>},
                                 h \in HeaderSets, e \in Extras }

------------------------------------------------------------------------------
\* Responses

NoHeaders == [h \in {} |-> ""]

NoLocation == [path |-> <<>>, query_string |-> ""]

\* Slot of an exchange that has no response yet.
NoResponse ==
    [status |-> 0, media_type |-> "", body |-> "", headers |-> NoHeaders,
     location |-> NoLocation]

Response(status, media_type, body, headers) ==
    [status |-> status, media_type |-> media_type, body |-> body,
     headers |-> headers, location |-> NoLocation]

\* json.dumps(content, separators=(",", ":")) on the dicts the application renders.
JSONRender(content) ==
    CASE content = [status |-> "ok"] -> "{\"status\":\"ok\"}"
      [] content = [detail |-> "Not Found"] -> "{\"detail\":\"Not Found\"}"
      [] content = [detail |-> "Method Not Allowed"] ->
             "{\"detail\":\"Method Not Allowed\"}"
      [] content = [openapi |-> "3.1.0"] -> "{\"openapi\":\"3.1.0\"}"

\* Variant: the dict is sent as plain text.
JSONResponse_as_text(content, status, headers) ==
    Response(status, "text/plain", JSONRender(content), headers)

JSONResponse(content, status, headers) ==
    Response(status, "application/json", JSONRender(content), headers)

PlainTextResponse(text, status, headers) ==
    Response(status, "text/plain", text, headers)

HTMLResponse(html) == Response(200, "text/html", html, NoHeaders)

RedirectResponse(path, query_string) ==
    [status |-> 307, media_type |-> "", body |-> "", headers |-> NoHeaders,
     location |-> [path |-> path, query_string |-> query_string]]

------------------------------------------------------------------------------
\* CORSMiddleware as configured by app.add_middleware

allow_origins == {"*"}

allow_credentials == TRUE

allow_methods == {"*"}

allow_headers == {"*"}

ALL_METHODS == {"DELETE", "GET", "HEAD", "OPTIONS", "PATCH", "POST", "PUT"}

\* ", ".join(ALL_METHODS)
ALL_METHODS_joined == "DELETE, GET, HEAD, OPTIONS, PATCH, POST, PUT"

\* allow_methods = ALL_METHODS when "*" is among the configured methods
cors_allow_methods ==
    IF "*" \in allow_methods THEN ALL_METHODS ELSE allow_methods

allow_all_origins == "*" \in allow_origins

allow_all_headers == "*" \in allow_headers

preflight_explicit_allow_origin == ~allow_all_origins \/ allow_credentials

\* Variant: the credentials header is left out of simple responses.
simple_headers_origin_only ==
    IF allow_all_origins THEN "Access-Control-Allow-Origin" :> "*" ELSE NoHeaders

simple_headers ==
    (IF allow_all_origins THEN "Access-Control-Allow-Origin" :> "*" ELSE NoHeaders)
    @@ (IF allow_credentials
        THEN "Access-Control-Allow-Credentials" :> "true" ELSE NoHeaders)

preflight_headers ==
    (IF preflight_explicit_allow_origin
     THEN "Vary" :> "Origin" ELSE "Access-Control-Allow-Origin" :> "*")
    @@ ("Access-Control-Allow-Methods" :>
            (IF "*" \in allow_methods THEN ALL_METHODS_joined ELSE "GET"))
    @@ ("Access-Control-Max-Age" :> "600")
    @@ (IF ~allow_all_headers
        THEN "Access-Control-Allow-Headers" :>
                 "Accept, Accept-Language, Content-Language, Content-Type"
        ELSE NoHeaders)
    @@ (IF allow_credentials
        THEN "Access-Control-Allow-Credentials" :> "true" ELSE NoHeaders)

is_allowed_origin(origin) == allow_all_origins \/ origin \in allow_origins

\* Variant: every OPTIONS request with an Origin header is taken for a preflight.
is_preflight_any_options(req) ==
    /\ req.origin # Absent
    /\ req.method = "OPTIONS"

\* CORSMiddleware.__call__: which branch a request takes.
is_preflight(req) ==
    /\ req.origin # Absent
    /\ req.method = "OPTIONS"
    /\ req.acrm # Absent

\* CORSMiddleware.preflight_response
preflight_response(req) ==
    LET origin_ok == is_allowed_origin(req.origin)
        method_ok == req.acrm \in cors_allow_methods
        headers_ok == allow_all_headers \/ req.acrh = Absent \/ req.acrh \in allow_headers
        h1 == IF origin_ok /\ preflight_explicit_allow_origin
              THEN ("Access-Control-Allow-Origin" :> req.origin) @@ preflight_headers
              ELSE preflight_headers
        h2 == IF allow_all_headers /\ req.acrh # Absent
              THEN ("Access-Control-Allow-Headers" :> req.acrh) @@ h1
              ELSE h1
    IN  IF origin_ok /\ method_ok /\ headers_ok
        THEN PlainTextResponse("OK", 200, h2)
        ELSE PlainTextResponse(
                 IF ~origin_ok THEN "Disallowed CORS origin"
                 ELSE IF ~method_ok THEN "Disallowed CORS method"
                 ELSE "Disallowed CORS headers",
                 400, h2)

\* CORSMiddleware.allow_explicit_origin
allow_explicit_origin(headers, origin) ==
    ("Access-Control-Allow-Origin" :> origin) @@ ("Vary" :> "Origin") @@ headers

\* Variant: the wrapper passes the response on without the CORS headers.
cors_send_unwrapped(req, resp) == resp

\* CORSMiddleware.send: the wrapper simple_response puts around send.
cors_send(req, resp) ==
    LET h0 == simple_headers @@ resp.headers
        h1 == IF allow_all_origins /\ req.cookie
              THEN allow_explicit_origin(h0, req.origin)
              ELSE IF ~allow_all_origins /\ is_allowed_origin(req.origin)
              THEN allow_explicit_origin(h0, req.origin)
              ELSE h0
    IN  [resp EXCEPT !.headers = h1]

\* The response as it leaves the middleware: wrapped only when the request
\* carries an Origin header.
through_cors(req, resp) ==
    IF req.origin = Absent THEN resp ELSE cors_send(req, resp)

------------------------------------------------------------------------------
\* The routing table: the routes FastAPI() sets up for its documentation
\* (Starlette routes, which add HEAD to GET), then the included health router
\* (an APIRoute, whose methods are exactly those of the decorator).

routes ==
    << [path |-> OpenapiPath, methods |-> {"GET", "HEAD"}, endpoint |-> "openapi"],
       [path |-> DocsPath, methods |-> {"GET", "HEAD"}, endpoint |-> "swagger_ui_html"],
       [path |-> OAuth2RedirectPath, methods |-> {"GET", "HEAD"},
        endpoint |-> "swagger_ui_redirect"],
       [path |-> RedocPath, methods |-> {"GET", "HEAD"}, endpoint |-> "redoc_html"],
       [path |-> HealthPath, methods |-> {"GET"}, endpoint |-> "health_check"] >>

Endpoints == { routes[i].endpoint : i \in DOMAIN routes }

\* Variant: the method is not looked at.
route_matches_any_method(route, path, method) ==
    IF route.path # path THEN "NONE" ELSE "FULL"

\* Variant: the route's path need only be a prefix of the request's.
route_matches_prefix(route, path, method) ==
    IF Len(path) < Len(route.path) \/ SubSeq(path, 1, Len(route.path)) # route.path
    THEN "NONE"
    ELSE IF method \in route.methods THEN "FULL"
    ELSE "PARTIAL"

\* Route.matches: the path must match exactly; a wrong method is a partial match.
route_matches(route, path, method) ==
    IF route.path # path THEN "NONE"
    ELSE IF method \in route.methods THEN "FULL"
    ELSE "PARTIAL"

\* ", ".join(route.methods), the Allow header of a 405
allow_header(route) ==
    IF route.methods = {"GET"} THEN "GET" ELSE "GET, HEAD"

\* path.rstrip("/")
RECURSIVE rstrip_slash(_)
rstrip_slash(path) ==
    IF Len(path) > 0 /\ path[Len(path)] = ""
    THEN rstrip_slash(SubSeq(path, 1, Len(path) - 1))
    ELSE path

\* The path Router.app tries for a slash redirect.
redirect_path(path) ==
    IF path[Len(path)] = "" THEN rstrip_slash(path) ELSE Append(path, "")

\* Router.app: the first full match is dispatched, else the first partial match
\* answers 405, else a match of the path with the trailing slash toggled answers
\* 307, else Router.not_found answers 404.
router_app(req) ==
    LET full == { i \in DOMAIN routes :
                    route_matches(routes[i], req.path, req.method) = "FULL" }
        partial == { i \in DOMAIN routes :
                       route_matches(routes[i], req.path, req.method) = "PARTIAL" }
        first(S) == CHOOSE i \in S : \A j \in S : i <= j
        redirect == /\ req.path # <<"">>
                    /\ \E i \in DOMAIN routes :
                         route_matches(routes[i], redirect_path(req.path), req.method)
                           # "NONE"
    IN  IF full # {}
        THEN [endpoint |-> routes[first(full)].endpoint, resp |-> NoResponse]
        ELSE IF partial # {}
        THEN [endpoint |-> "none",
              resp |-> JSONResponse([detail |-> "Method Not Allowed"], 405,
                                    "Allow" :> allow_header(routes[first(partial)]))]
        ELSE IF redirect
        THEN [endpoint |-> "none",
              resp |-> RedirectResponse(redirect_path(req.path), req.query_string)]
        ELSE [endpoint |-> "none",
              resp |-> JSONResponse([detail |-> "Not Found"], 404, NoHeaders)]

------------------------------------------------------------------------------
\* Endpoints

\* Variant: the handler raises.
health_check_raises == [raised |-> TRUE, value |-> [status |-> "ok"]]

\* health_check(): takes no parameter, returns the dict.
health_check == [raised |-> FALSE, value |-> [status |-> "ok"]]

\* app.openapi_schema before the schema is built
None == [k \in {} |-> ""]

\* Variant: a call that finds a cached schema answers and caches another one.
openapi_stale(cached) ==
    IF cached = None THEN [openapi |-> "3.1.0"] ELSE [detail |-> "Not Found"]

\* FastAPI.openapi(): the schema, built on the first call and cached.
openapi(cached) ==
    IF cached = None THEN [openapi |-> "3.1.0"] ELSE cached

\* Variant: the health handler answers from state that other requests write.
call_endpoint_shared_state(endpoint, cached) ==
    CASE endpoint = "health_check" ->
           [error |-> FALSE,
            resp |-> JSONResponse(IF cached = None THEN health_check.value ELSE cached,
                                  200, NoHeaders),
            schema |-> cached]
      [] endpoint = "openapi" ->
           [error |-> FALSE,
            resp |-> JSONResponse(openapi(cached), 200, NoHeaders),
            schema |-> openapi(cached)]
      [] OTHER ->
           [error |-> FALSE, resp |-> HTMLResponse("<html>"), schema |-> cached]

\* What calling an endpoint answers and leaves in app.openapi_schema.  An
\* exception an endpoint raises is answered by ServerErrorMiddleware, outside
\* the CORS middleware.
call_endpoint(endpoint, cached) ==
    CASE endpoint = "health_check" ->
           [error |-> health_check.raised,
            resp |-> IF health_check.raised
                     THEN PlainTextResponse("Internal Server Error", 500, NoHeaders)
                     ELSE JSONResponse(health_check.value, 200, NoHeaders),
            schema |-> cached]
      [] endpoint = "openapi" ->
           [error |-> FALSE,
            resp |-> JSONResponse(openapi(cached), 200, NoHeaders),
            schema |-> openapi(cached)]
      [] endpoint = "swagger_ui_html" ->
           [error |-> FALSE, resp |-> HTMLResponse("<swagger-ui>"), schema |-> cached]
      [] endpoint = "swagger_ui_redirect" ->
           [error |-> FALSE, resp |-> HTMLResponse("<oauth2-redirect>"),
            schema |-> cached]
      [] endpoint = "redoc_html" ->
           [error |-> FALSE, resp |-> HTMLResponse("<redoc>"), schema |-> cached]

------------------------------------------------------------------------------
\* The server: a bag of exchanges in flight, each at its own position.

\* An exchange: the request, where it is (pc), the endpoint the router
\* dispatched it to, the response, and the layer that produced the response (by).
Exchange(req, pc, endpoint, resp, by) ==
    [req |-> req, pc |-> pc, endpoint |-> endpoint, resp |-> resp, by |-> by]

InFlight == BagToSet(inflight)

Replace(old, new) == inflight' = (inflight (-) SetToBag({old})) (+) SetToBag({new})

Init ==
    /\ inflight = EmptyBag
    /\ openapi_schema = None

\* The server accepts a request.
Receive(req) ==
    /\ BagCardinality(inflight) < MaxInFlight
    /\ inflight' = inflight (+) SetToBag({Exchange(req, "cors", "none", NoResponse, "none")})
    /\ UNCHANGED openapi_schema

\* CORSMiddleware.__call__: a preflight request is answered here, any other
\* request goes on to the router.
Cors(x) ==
    /\ x \in InFlight
    /\ x.pc = "cors"
    /\ IF is_preflight(x.req)
       THEN Replace(x, Exchange(x.req, "done", "none", preflight_response(x.req), "cors"))
       ELSE Replace(x, Exchange(x.req, "router", "none", NoResponse, "none"))
    /\ UNCHANGED openapi_schema

\* Router.app: dispatch to the matching route's endpoint, or answer 405, 307, 404.
Route(x) ==
    /\ x \in InFlight
    /\ x.pc = "router"
    /\ LET r == router_app(x.req)
       IN  IF r.endpoint # "none"
           THEN Replace(x, Exchange(x.req, "endpoint", r.endpoint, NoResponse, "none"))
           ELSE Replace(x, Exchange(x.req, "done", "none", through_cors(x.req, r.resp),
                                    "router"))
    /\ UNCHANGED openapi_schema

\* The endpoint runs and its response is sent.
RunEndpoint(x) ==
    /\ x \in InFlight
    /\ x.pc = "endpoint"
    /\ LET r == call_endpoint(x.endpoint, openapi_schema)
       IN  /\ Replace(x, Exchange(x.req, "done", x.endpoint,
                                  IF r.error THEN r.resp ELSE through_cors(x.req, r.resp),
                                  IF r.error THEN "server_error" ELSE "endpoint"))
           /\ openapi_schema' = r.schema

\* The response has been written to the client; the exchange is over.
Release(x) ==
    /\ x \in InFlight
    /\ x.pc = "done"
    /\ inflight' = inflight (-) SetToBag({x})
    /\ UNCHANGED openapi_schema

Next ==
    \/ \E req \in Requests : Receive(req)
    \/ \E x \in InFlight : Cors(x)
    \/ \E x \in InFlight : Route(x)
    \/ \E x \in InFlight : RunEndpoint(x)
    \/ \E x \in InFlight : Release(x)

Spec == Init /\ [][Next]_vars

\* The requests of the specification with fairness: /health and /openapi.json,
\* without and with an Origin header.
FairRequests ==
    { req \in Requests :
        /\ req.path \in {HealthPath, OpenapiPath}
        /\ req.acrm = Absent /\ ~req.cookie }

FairNext ==
    \/ \E req \in FairRequests : Receive(req)
    \/ \E x \in InFlight : Cors(x)
    \/ \E x \in InFlight : Route(x)
    \/ \E x \in InFlight : RunEndpoint(x)
    \/ \E x \in InFlight : Release(x)

\* A GET /health exchange the router has dispatched to health_check.
Dispatched(req) == Exchange(req, "endpoint", "health_check", NoResponse, "none")

HealthGets == { req \in Requests : req.method = "GET" /\ req.path = HealthPath }

\* The event loop runs every coroutine that is ready: a dispatched handler runs.
FairSpec ==
    /\ Init /\ [][FairNext]_vars
    /\ \A req \in HealthGets \cap FairRequests : WF_vars(RunEndpoint(Dispatched(req)))

------------------------------------------------------------------------------
\* Properties

Done == { x \in InFlight : x.pc = "done" }

HealthBody == "{\"status\":\"ok\"}"

ACAO == "Access-Control-Allow-Origin"

ACAC == "Access-Control-Allow-Credentials"

ACAM == "Access-Control-Allow-Methods"

ACAH == "Access-Control-Allow-Headers"

CorsHeaderNames == {ACAO, ACAC, ACAM, ACAH, "Access-Control-Max-Age"}

\* An OPTIONS request carrying Origin and Access-Control-Request-Method.
PreflightRequest(req) ==
    req.method = "OPTIONS" /\ req.origin # Absent /\ req.acrm # Absent

RoutePaths == { routes[i].path : i \in DOMAIN routes }

\* What a server that has served nothing yet answers to the request alone.
ServedAlone(req) ==
    IF is_preflight(req) THEN preflight_response(req)
    ELSE LET r == router_app(req)
         IN  IF r.endpoint = "none" THEN through_cors(req, r.resp)
             ELSE LET c == call_endpoint(r.endpoint, None)
                  IN  IF c.error THEN c.resp ELSE through_cors(req, c.resp)

\* C1: every GET /health, whatever its query string, headers or body, is
\* answered 200, application/json, {"status":"ok"}.
C1_HealthAlwaysOk ==
    \A x \in Done :
        (x.req.method = "GET" /\ x.req.path = HealthPath) =>
            /\ x.resp.status = 200
            /\ x.resp.media_type = "application/json"
            /\ x.resp.body = HealthBody

C1_Witness ==
    \E x \in Done :
        /\ x.req.method = "GET" /\ x.req.path = HealthPath
        /\ x.req.query_string # "" /\ x.req.body # ""
        /\ x.req.origin # Absent /\ x.req.cookie
        /\ x.resp.status = 200

\* Identical requests have identical responses, and every response is the one
\* a server that has served nothing would give.
IdenticalResponses ==
    /\ \A x, y \in Done : x.req = y.req => x.resp = y.resp
    /\ \A x \in Done : x.resp = ServedAlone(x.req)

\* C2 as stated: identical requests receive identical responses and serving a
\* request changes no server state.
C2_NoStateChange ==
    []IdenticalResponses /\ [][openapi_schema' = openapi_schema]_vars

\* C2 amended: identical requests receive identical responses after any
\* history; the only server state a request changes is app.openapi_schema,
\* which the first run of the /openapi.json endpoint builds and which never
\* changes again.
C2_OnlySchemaCache ==
    /\ []IdenticalResponses
    /\ [][openapi_schema' # openapi_schema =>
            /\ openapi_schema = None
            /\ \E x \in InFlight : x.pc = "endpoint" /\ x.endpoint = "openapi"]_vars

C2_Witness ==
    /\ openapi_schema # None
    /\ \E x \in Done : x.endpoint = "openapi" /\ CopiesIn(x, inflight) = 2

\* C3 as stated: /health with a method other than GET is answered not-found or
\* method-not-allowed, never 200, and the handler is not invoked.
C3_NonGetUnhandled ==
    \A x \in Done :
        (x.req.path = HealthPath /\ x.req.method # "GET") =>
            /\ x.resp.status \in {404, 405}
            /\ x.endpoint # "health_check"

\* C3 amended: /health with a method other than GET never invokes the handler;
\* it is answered 405 by the router, unless it is a CORS preflight, which the
\* middleware answers itself with 200 or 400.
C3_NonGetNotDispatched ==
    \A x \in Done :
        (x.req.path = HealthPath /\ x.req.method # "GET") =>
            /\ x.endpoint = "none"
            /\ IF PreflightRequest(x.req)
               THEN x.by = "cors" /\ x.resp.status \in {200, 400}
               ELSE x.by = "router" /\ x.resp.status = 405

C3_Witness ==
    /\ \E x \in Done : x.req.path = HealthPath /\ x.req.method = "POST"
                       /\ x.resp.status = 405
    /\ \E x \in Done : x.req.path = HealthPath /\ PreflightRequest(x.req)
                       /\ x.resp.status = 200

\* C4 as stated: a GET to any path other than /health is answered not-found.
C4_OtherPathsNotFound ==
    \A x \in Done :
        (x.req.method = "GET" /\ x.req.path # HealthPath) => x.resp.status = 404

\* C4 amended: a GET to a path other than /health never invokes the health
\* handler; it is answered 200 by the framework's documentation endpoints on
\* /openapi.json, /docs, /docs/oauth2-redirect and /redoc, 307 when the path is
\* a registered path followed by a slash, and 404 otherwise.
C4_OtherPathsNoHealth ==
    \A x \in Done :
        (x.req.method = "GET" /\ x.req.path # HealthPath) =>
            /\ x.endpoint # "health_check"
            /\ IF x.req.path \in {OpenapiPath, DocsPath, OAuth2RedirectPath, RedocPath}
               THEN x.resp.status = 200 /\ x.by = "endpoint"
               ELSE IF x.req.path[Len(x.req.path)] = ""
                       /\ rstrip_slash(x.req.path) \in RoutePaths
               THEN x.resp.status = 307 /\ x.by = "router"
                    /\ x.resp.location.path = rstrip_slash(x.req.path)
               ELSE x.resp.status = 404 /\ x.by = "router"

C4_Witness ==
    /\ \E x \in Done : x.req.method = "GET" /\ x.req.path = <<"unknown">>
                       /\ x.resp.status = 404
    /\ \E x \in Done : x.req.method = "GET" /\ x.req.path = DocsPath
                       /\ x.resp.status = 200

\* C5 as stated: every response carries the four CORS headers, whether or not
\* the request carries an Origin header.
C5_CorsOnEveryResponse ==
    \A x \in Done :
        LET h == x.resp.headers
        IN  /\ {ACAO, ACAC, ACAM, ACAH} \subseteq DOMAIN h
            /\ h[ACAO] \in {"*", x.req.origin}
            /\ h[ACAC] = "true"
            /\ h[ACAM] = "*"
            /\ h[ACAH] = "*"

\* C5 amended: a response to a request with an Origin header carries
\* Access-Control-Allow-Origin (* or the echoed origin) and
\* Access-Control-Allow-Credentials: true; Access-Control-Allow-Methods (the
\* list of the seven standard methods) is carried by preflight responses only,
\* and Access-Control-Allow-Headers by the preflight responses to a request
\* naming Access-Control-Request-Headers, which it echoes; a response to a
\* request without an Origin header carries no CORS header.
C5_CorsWhenOrigin ==
    \A x \in Done :
        LET h == x.resp.headers
        IN  IF x.req.origin = Absent
            THEN DOMAIN h \cap CorsHeaderNames = {}
            ELSE /\ ACAO \in DOMAIN h /\ h[ACAO] \in {"*", x.req.origin}
                 /\ ACAC \in DOMAIN h /\ h[ACAC] = "true"
                 /\ (ACAM \in DOMAIN h) <=> PreflightRequest(x.req)
                 /\ (ACAM \in DOMAIN h) =>
                        h[ACAM] = "DELETE, GET, HEAD, OPTIONS, PATCH, POST, PUT"
                 /\ (ACAH \in DOMAIN h) <=>
                        (PreflightRequest(x.req) /\ x.req.acrh # Absent)
                 /\ (ACAH \in DOMAIN h) => h[ACAH] = x.req.acrh

C5_Witness ==
    /\ \E x \in Done : x.req.origin # Absent /\ ~PreflightRequest(x.req)
                       /\ x.resp.headers[ACAO] = "*"
    /\ \E x \in Done : x.req.origin # Absent /\ x.req.cookie
                       /\ x.resp.headers[ACAO] = x.req.origin

\* C6: a GET /health with an Origin header is answered 200 with the body and
\* status of the same request without the header, plus an allow-origin header.
C6_CorsOnlyAddsHeaders ==
    \A x \in Done :
        (x.req.method = "GET" /\ x.req.path = HealthPath /\ x.req.origin # Absent) =>
            LET plain == ServedAlone([x.req EXCEPT !.origin = Absent])
            IN  /\ x.resp.status = 200
                /\ x.resp.body = HealthBody
                /\ x.resp.status = plain.status
                /\ x.resp.body = plain.body
                /\ x.resp.media_type = plain.media_type
                /\ ACAO \in DOMAIN x.resp.headers
                /\ ACAO \notin DOMAIN plain.headers

C6_Witness ==
    \E x \in Done :
        /\ x.req.method = "GET" /\ x.req.path = HealthPath
        /\ x.req.origin = "http://example.com" /\ x.req.acrm # Absent
        /\ ACAO \in DOMAIN x.resp.headers

\* C7: under every interleaving of the requests in flight, a GET /health
\* receives the response it would receive served alone: 200, {"status":"ok"}.
C7_IndependentOfOthers ==
    \A x \in Done :
        (x.req.method = "GET" /\ x.req.path = HealthPath) =>
            /\ x.resp = ServedAlone(x.req)
            /\ x.resp.status = 200
            /\ x.resp.body = HealthBody

C7_Witness ==
    /\ openapi_schema # None
    /\ \E x \in Done : x.endpoint = "health_check" /\ x.resp.status = 200
    /\ \E y \in InFlight : y.endpoint = "openapi" /\ y.pc = "endpoint"

\* C8: a GET /health dispatched to the handler eventually completes with the
\* success response, and no run of the handler ends in an error.
C8_HandlerCompletes ==
    /\ \A req \in HealthGets \cap FairRequests :
         (Dispatched(req) \in InFlight) ~>
             (\E y \in Done : y.req = req /\ y.by = "endpoint" /\ y.resp.status = 200
                              /\ y.resp.body = HealthBody)
    /\ [](\A x \in Done : x.endpoint = "health_check" =>
              x.by = "endpoint" /\ x.resp.status < 500)

C8_Witness ==
    \E x \in Done : x.endpoint = "health_check" /\ x.by = "endpoint"
                    /\ x.req.query_string # ""

\* C10 as stated: a preflight request to any path is answered by the middleware
\* with a success status and the allow headers, without reaching the router;
\* any other OPTIONS request reaches the router and is unhandled.
C10_PreflightSucceeds ==
    \A x \in Done :
        x.req.method = "OPTIONS" =>
            IF PreflightRequest(x.req)
            THEN /\ x.by = "cors" /\ x.endpoint = "none"
                 /\ x.resp.status = 200
                 /\ {ACAO, ACAM, ACAC} \subseteq DOMAIN x.resp.headers
            ELSE /\ x.by = "router" /\ x.endpoint = "none"
                 /\ x.resp.status # 200

\* C10 amended: a preflight request to any path is answered by the middleware
\* itself, never reaching the router or an endpoint, with the allow headers and
\* status 200 when the requested method is one of DELETE, GET, HEAD, OPTIONS,
\* PATCH, POST, PUT, and status 400 otherwise; any other OPTIONS request
\* reaches the router and is unhandled (405, 307 or 404).
C10_PreflightByMiddleware ==
    \A x \in Done :
        x.req.method = "OPTIONS" =>
            IF PreflightRequest(x.req)
            THEN /\ x.by = "cors" /\ x.endpoint = "none"
                 /\ {ACAO, ACAM, ACAC} \subseteq DOMAIN x.resp.headers
                 /\ x.resp.headers[ACAO] \in {"*", x.req.origin}
                 /\ x.resp.headers[ACAC] = "true"
                 /\ x.resp.status =
                        IF x.req.acrm \in {"DELETE", "GET", "HEAD", "OPTIONS",
                                           "PATCH", "POST", "PUT"}
                        THEN 200 ELSE 400
            ELSE /\ x.by = "router" /\ x.endpoint = "none"
                 /\ x.resp.status \in {404, 405, 307}

C10_Witness ==
    /\ \E x \in Done : PreflightRequest(x.req) /\ x.req.path = <<"unknown">>
                       /\ x.resp.status = 200
    /\ \E x \in Done : x.req.method = "OPTIONS" /\ ~PreflightRequest(x.req)
                       /\ x.req.path = HealthPath /\ x.resp.status = 405

====
